---- MODULE Spec2Model ----
(***************************************************************************)
(* To-Do list application (src/js/script.js).                              *)
(*                                                                         *)
(* Strings are sequences of one-character strings, so that trim,           *)
(* toLowerCase, includes and escapeHtml are computed character by          *)
(* character.  A date "YYYY-MM-DD" is the tuple <<year, month, day>>; the  *)
(* empty string of a date field is the empty tuple.  Every action is one   *)
(* whole event handler: the browser runs each handler to completion.       *)
(***************************************************************************)
EXTENDS Integers, Sequences, FiniteSets, TLC

VARIABLES
    phase,              \* "ready": script ran and DOMContentLoaded fired; "crashed": the script threw while loading
    storage,            \* localStorage item 'todos'
    todos,              \* let todos
    filteredTodos,      \* let filteredTodos
    todoInput,          \* todoInput.value
    todoDate,           \* todoDate.value
    inputError,         \* inputError.textContent
    dateError,          \* dateError.textContent
    filterInput,        \* filterInput.value
    filterDateSelect,   \* filterDateSelect.value
    filterOptions,      \* option values of filterDateSelect after the first (empty) one
    todoList,           \* children of todoList: the placeholder row or the task rows
    todoCount,          \* todoCount.textContent as <<n, label>>
    clock,              \* the latest reading of the millisecond clock (Date.now(), new Date())
    last                \* history: the last command run, its argument and dialog

vars == <<phase, storage, todos, filteredTodos, todoInput, todoDate, inputError,
          dateError, filterInput, filterDateSelect, filterOptions, todoList,
          todoCount, clock, last>>

(***************************************************************************)
(* Bounds and input sets                                                   *)
(***************************************************************************)
MaxTodos == 2
MaxClock == 2
\* longest title over EscapeAlphabet that is typed
MaxTitleLen == 2

NoDate == <<>>
\* what the title field and the date field hold when addTodo runs
AddInputs ==
    { << <<" ", "A", "b", " ">>, <<2024, 1, 5>> >>,
      << <<"b", "<">>, <<2024, 1, 6>> >>,
      << <<" ">>, <<2024, 1, 5>> >>,
      << <<" ", "A", "b", " ">>, NoDate >>,
      << <<>>, NoDate >> }
\* the characters escapeHtml replaces, and two it leaves alone
EscapeAlphabet == {"&", "<", ">", "\"", "'", "a", ";"}
\* titles that read as an entity already
EntityTitles ==
    { <<"&", "a", "m", "p", ";">>,
      <<"&", "l", "t", ";">>,
      <<"&", "#", "0", "3", "9", ";">>,
      <<"<", "a", ">", "&", "q", "u", "o", "t", ";">> }
\* what the title field and the date field hold when addTodo runs on a title
\* of special characters
EscapeInputs ==
    { <<t, <<2024, 1, 5>> >> :
          t \in EntityTitles \cup
                UNION { [1 .. k -> EscapeAlphabet] : k \in 0 .. MaxTitleLen } }
    \cup { << <<"&">>, NoDate >> }
\* what the text filter field holds after an input event
FilterInputs == { <<>>, <<"A">> }
\* an id that no record carries: Date.now() never reads 0
MissingId == 0

(***************************************************************************)
(* String helpers                                                          *)
(***************************************************************************)
IsSpace(c) == c \in {" "}

RECURSIVE TrimStart(_)
TrimStart(s) ==
    IF s = <<>> THEN <<>>
    ELSE IF IsSpace(Head(s)) THEN TrimStart(Tail(s)) ELSE s

RECURSIVE TrimEnd(_)
TrimEnd(s) ==
    IF s = <<>> THEN <<>>
    ELSE IF IsSpace(s[Len(s)]) THEN TrimEnd(SubSeq(s, 1, Len(s) - 1)) ELSE s

\* variant: the title is taken as typed
TrimNone(s) == s

Trim(s) == TrimEnd(TrimStart(s))

LowerChar(c) ==
    CASE c = "A" -> "a"
      [] c = "B" -> "b"
      [] OTHER -> c

ToLowerCase(s) == [i \in 1 .. Len(s) |-> LowerChar(s[i])]

Includes(s, t) ==
    \E i \in 0 .. (Len(s) - Len(t)) : SubSeq(s, i + 1, i + Len(t)) = t

\* variant: the apostrophe is left as it is
EntityNoApostrophe(c) ==
    CASE c = "&" -> <<"&", "a", "m", "p", ";">>
      [] c = "<" -> <<"&", "l", "t", ";">>
      [] c = ">" -> <<"&", "g", "t", ";">>
      [] c = "\"" -> <<"&", "q", "u", "o", "t", ";">>
      [] OTHER -> <<c>>

Entity(c) ==
    CASE c = "&" -> <<"&", "a", "m", "p", ";">>
      [] c = "<" -> <<"&", "l", "t", ";">>
      [] c = ">" -> <<"&", "g", "t", ";">>
      [] c = "\"" -> <<"&", "q", "u", "o", "t", ";">>
      [] c = "'" -> <<"&", "#", "0", "3", "9", ";">>
      [] OTHER -> <<c>>

RECURSIVE escapeHtml(_)
escapeHtml(text) ==
    IF text = <<>> THEN <<>> ELSE Entity(Head(text)) \o escapeHtml(Tail(text))

MonthShort ==
    <<"Jan", "Feb", "Mar", "Apr", "May", "Jun",
      "Jul", "Aug", "Sep", "Oct", "Nov", "Dec">>

formatDate(dateString) ==
    <<MonthShort[dateString[2]], dateString[3], dateString[1]>>

ToISOString(ms) == <<"ISO", ms>>

DateLess(a, b) ==
    \/ a[1] < b[1]
    \/ a[1] = b[1] /\ a[2] < b[2]
    \/ a[1] = b[1] /\ a[2] = b[2] /\ a[3] < b[3]

RECURSIVE SortDates(_)
SortDates(S) ==
    IF S = {} THEN <<>>
    ELSE LET m == CHOOSE x \in S : \A y \in S : x = y \/ DateLess(x, y)
         IN <<m>> \o SortDates(S \ {m})

Range(s) == { s[i] : i \in 1 .. Len(s) }

RECURSIVE FilterSeq(_, _)
FilterSeq(s, keep) ==
    IF s = <<>> THEN <<>>
    ELSE IF keep[1] THEN <<Head(s)>> \o FilterSeq(Tail(s), Tail(keep))
    ELSE FilterSeq(Tail(s), Tail(keep))

(***************************************************************************)
(* JSON.stringify / JSON.parse of the collection, and the stored item      *)
(***************************************************************************)
JsonNumber(n) == [type |-> "number", v |-> n]
JsonString(s) == [type |-> "string", v |-> s]
JsonBoolean(b) == [type |-> "literal", v |-> IF b THEN "true" ELSE "false"]

StringifyTodo(t) ==
    [id |-> JsonNumber(t.id),
     title |-> JsonString(t.title),
     date |-> JsonString(t.date),
     completed |-> JsonBoolean(t.completed),
     createdAt |-> JsonString(t.createdAt)]

\* variant: any non-empty literal reads as true
ParseTodoTruthy(j) ==
    [id |-> j.id.v,
     title |-> j.title.v,
     date |-> j.date.v,
     completed |-> (j.completed.v # ""),
     createdAt |-> j.createdAt.v]

ParseTodo(j) ==
    [id |-> j.id.v,
     title |-> j.title.v,
     date |-> j.date.v,
     completed |-> (j.completed.v = "true"),
     createdAt |-> j.createdAt.v]

\* getItem returns null when the key was never set
Absent == [kind |-> "absent", items |-> <<>>]
\* text that is not JSON
InvalidText == [kind |-> "invalid", items |-> <<>>]
\* the JSON text null
NullText == [kind |-> "null", items |-> <<>>]
\* JSON text of an object that is not an array
ObjectText == [kind |-> "object", items |-> <<>>]

InitialBlobs == {Absent, InvalidText, NullText, ObjectText}

JSONstringify(ts) ==
    [kind |-> "array", items |-> [i \in 1 .. Len(ts) |-> StringifyTodo(ts[i])]]

\* JSON.parse(localStorage.getItem('todos')) raises SyntaxError on text that
\* is not JSON; [...todos] raises TypeError on a value that is not iterable.
LoadThrows(blob) == blob.kind \in {"invalid", "object"}

\* JSON.parse(...) || [] : null (absent key or the text null) gives [].
LoadTodos(blob) ==
    IF blob.kind = "array"
    THEN [i \in 1 .. Len(blob.items) |-> ParseTodo(blob.items[i])]
    ELSE <<>>

\* variant: the write is left out
saveTodosSkipped(ts, old) == old

saveTodos(ts, old) == JSONstringify(ts)

(***************************************************************************)
(* Rendering                                                               *)
(***************************************************************************)
createTodoElement(todo) ==
    [className |-> IF todo.completed THEN "todo-item completed" ELSE "todo-item ",
     title |-> escapeHtml(todo.title),
     date |-> formatDate(todo.date),
     toggleArg |-> todo.id,
     deleteArg |-> todo.id,
     label |-> IF todo.completed THEN "Undo" ELSE "Done"]

\* variant: the label is always the plural
updateTodoCountPlural(count) == <<count, "items">>

updateTodoCount(count) == <<count, IF count = 1 THEN "item" ELSE "items">>

renderTodos(todosToRender) ==
    [placeholder |-> (Len(todosToRender) = 0),
     rows |-> [i \in 1 .. Len(todosToRender) |-> createTodoElement(todosToRender[i])]]

\* the list and the count as the static page has them before any render
BlankList == [placeholder |-> FALSE, rows |-> <<>>]
BlankCount == <<0, "">>

(***************************************************************************)
(* Filtering and the date options                                          *)
(***************************************************************************)
\* variant: the title is compared as stored, not lowercased
MatchesFilterCaseSensitive(todo, searchTerm, selectedDate) ==
    LET matchesTitle == Includes(todo.title, searchTerm)
        matchesDate == selectedDate = NoDate \/ todo.date = selectedDate
    IN matchesTitle /\ matchesDate

MatchesFilter(todo, searchTerm, selectedDate) ==
    LET matchesTitle == Includes(ToLowerCase(todo.title), searchTerm)
        matchesDate == selectedDate = NoDate \/ todo.date = selectedDate
    IN matchesTitle /\ matchesDate

FilterTodos(ts, text, selectedDate) ==
    FilterSeq(ts, [i \in 1 .. Len(ts) |->
                      MatchesFilter(ts[i], ToLowerCase(text), selectedDate)])

\* variant: one option per record, in collection order
DatesOfRecords(ts) == [i \in 1 .. Len(ts) |-> ts[i].date]

UniqueDates(ts) == SortDates({ ts[i].date : i \in 1 .. Len(ts) })

\* variant: the select keeps a value that no option carries
RestoreSelectionKeeps(currentValue, options) == currentValue

\* assigning select.value a string that no option carries leaves the
\* select without a selected option, and its value then reads ""
RestoreSelection(currentValue, options) ==
    IF currentValue \in Range(options) THEN currentValue ELSE NoDate

(***************************************************************************)
(* Collection operations                                                   *)
(***************************************************************************)
NewTodo(title, date, now, created) ==
    [id |-> now, title |-> title, date |-> date, completed |-> FALSE,
     createdAt |-> ToISOString(created)]

\* variant: the comparison of the filter callback is inverted
KeepById(ts, id) ==
    FilterSeq(ts, [i \in 1 .. Len(ts) |-> ts[i].id = id])

RemoveById(ts, id) ==
    FilterSeq(ts, [i \in 1 .. Len(ts) |-> ts[i].id # id])

HasId(ts, id) == \E i \in 1 .. Len(ts) : ts[i].id = id

\* todos.find: the first record with the id
FindIndex(ts, id) == CHOOSE i \in 1 .. Len(ts) :
    ts[i].id = id /\ \A j \in 1 .. (i - 1) : ts[j].id # id

\* variant: the flag is set instead of flipped
MarkCompletedById(ts, id) ==
    [ts EXCEPT ![FindIndex(ts, id)].completed = TRUE]

\* variant: the flag of every record is flipped
ToggleEveryRecord(ts, id) ==
    [i \in 1 .. Len(ts) |-> [ts[i] EXCEPT !.completed = ~ts[i].completed]]

ToggleById(ts, id) ==
    [ts EXCEPT ![FindIndex(ts, id)].completed = ~ts[FindIndex(ts, id)].completed]

(***************************************************************************)
(* History of the last command (not program state)                         *)
(***************************************************************************)
NoSnapshot == [todos |-> <<>>, storage |-> Absent]

\* the criteria and the view of a filtering, kept across a resetFilter:
\* stage 1 right after the filtering, 2 from the reset on, 3 when the same
\* criteria are in place again
NoView == [stage |-> 0, text |-> <<>>, date |-> NoDate, view |-> <<>>]

Cmd(c, a, d) ==
    [cmd |-> c, arg |-> a, dialog |-> d, run |-> 0, before |-> NoSnapshot,
     seen |-> NoView, dropped |-> FALSE]

\* history after a filter event that leaves the criteria (text, date) and
\* the view `view`: the filtering before a resetFilter is kept until its
\* criteria are in place again, which takes two events (one per control)
\* when both criteria were set
SeenAfterFilter(text, date, view) ==
    IF last.seen.stage = 2 /\ last.seen.text = text /\ last.seen.date = date
    THEN [last.seen EXCEPT !.stage = 3]
    ELSE IF /\ last.seen.stage = 2
            /\ last.cmd = "resetFilter"
            /\ last.seen.text # <<>>
            /\ last.seen.date # NoDate
    THEN last.seen
    ELSE [stage |-> 1, text |-> text, date |-> date, view |-> view]

(***************************************************************************)
(* Script load (lines 3-27) followed by the DOMContentLoaded handler       *)
(***************************************************************************)
\* The state a fresh page reaches from the stored item `blob`.  When line 3
\* or line 4 throws, the script stops there: no listener is registered and
\* nothing is rendered; todos is then never read and is shown as empty.
Startup(blob) ==
    IF LoadThrows(blob)
    THEN [phase |-> "crashed", todos |-> <<>>, filteredTodos |-> <<>>,
          filterOptions |-> <<>>, todoList |-> BlankList, todoCount |-> BlankCount]
    ELSE LET loaded == LoadTodos(blob)
         IN [phase |-> "ready", todos |-> loaded, filteredTodos |-> loaded,
             filterOptions |-> UniqueDates(loaded),
             todoList |-> renderTodos(loaded),
             todoCount |-> updateTodoCount(Len(loaded))]

Init ==
    \E blob \in InitialBlobs :
        LET s == Startup(blob)
        IN /\ storage = blob
           /\ phase = s.phase
           /\ todos = s.todos
           /\ filteredTodos = s.filteredTodos
           /\ filterOptions = s.filterOptions
           /\ todoList = s.todoList
           /\ todoCount = s.todoCount
           /\ todoInput = <<>>
           /\ todoDate = NoDate
           /\ inputError = ""
           /\ dateError = ""
           /\ filterInput = <<>>
           /\ filterDateSelect = NoDate
           /\ clock = 1
           /\ last = Cmd("load", 0, "")

\* The page is closed and opened again: the script runs on a fresh document
\* with the stored item as the previous session left it.
Reload ==
    LET s == Startup(storage)
    IN /\ phase' = s.phase
       /\ todos' = s.todos
       /\ filteredTodos' = s.filteredTodos
       /\ filterOptions' = s.filterOptions
       /\ todoList' = s.todoList
       /\ todoCount' = s.todoCount
       /\ todoInput' = <<>>
       /\ todoDate' = NoDate
       /\ inputError' = ""
       /\ dateError' = ""
       /\ filterInput' = <<>>
       /\ filterDateSelect' = NoDate
       /\ last' = Cmd("load", 0, "")
       /\ UNCHANGED <<storage, clock>>

(***************************************************************************)
(* addTodo (click on add-btn, or Enter in the title field), taken with the *)
(* typing before it: typed and picked are the values of the two fields     *)
(* when the handler runs, and now the reading of the clock: the reading of  *)
(* the handler before it, or a later one.                                  *)
(***************************************************************************)
TitleMessage == "Please enter a to-do title"
DateMessage == "Please select a date"

\* which validation branch of addTodo returns: "title", "date" or "" (none)
\* variant: the date is checked before the title
ValidateDateFirst(title, date) ==
    IF date = NoDate THEN "date" ELSE IF title = <<>> THEN "title" ELSE ""

Validate(title, date) ==
    IF title = <<>> THEN "title" ELSE IF date = NoDate THEN "date" ELSE ""

\* variant: unshift instead of push
PrependTodo(ts, t) == <<t>> \o ts

AppendTodo(ts, t) == Append(ts, t)

addTodo(typed, picked, now) ==
    /\ phase = "ready"
    /\ LET title == Trim(typed)
           date == picked
           failed == Validate(title, date)
       IN IF failed = "title"
          THEN /\ inputError' = TitleMessage
               /\ dateError' = ""
               /\ todoInput' = typed
               /\ todoDate' = picked
               /\ UNCHANGED <<storage, todos, filterOptions, filterDateSelect,
                              todoList, todoCount, clock>>
          ELSE IF failed = "date"
          THEN /\ inputError' = ""
               /\ dateError' = DateMessage
               /\ todoInput' = typed
               /\ todoDate' = picked
               /\ UNCHANGED <<storage, todos, filterOptions, filterDateSelect,
                              todoList, todoCount, clock>>
          ELSE /\ Len(todos) < MaxTodos
               /\ clock' = now
               /\ todos' = AppendTodo(todos, NewTodo(title, date, now, now))
               /\ storage' = saveTodos(todos', storage)
               /\ inputError' = ""
               /\ dateError' = ""
               /\ todoInput' = <<>>
               /\ todoDate' = NoDate
               /\ filterOptions' = UniqueDates(todos')
               /\ filterDateSelect' = RestoreSelection(filterDateSelect, filterOptions')
               /\ todoList' = renderTodos(todos')
               /\ todoCount' = updateTodoCount(Len(todos'))
    /\ last' = Cmd("addTodo", 0, "")
    /\ UNCHANGED <<phase, filteredTodos, filterInput>>

(***************************************************************************)
(* deleteTodo and toggleTodoComplete (inline onclick of a row, or a call)  *)
(***************************************************************************)
\* variant: the view and the list are left as they were
deleteTodoKeepsView(id) ==
    /\ phase = "ready"
    /\ todos' = RemoveById(todos, id)
    /\ storage' = saveTodos(todos', storage)
    /\ filterOptions' = UniqueDates(todos')
    /\ filterDateSelect' = RestoreSelection(filterDateSelect, filterOptions')
    /\ last' = [Cmd("deleteTodo", id, "") EXCEPT !.dropped =
                   filterDateSelect' # filterDateSelect]
    /\ UNCHANGED <<phase, todoInput, todoDate, inputError, dateError,
                   filterInput, clock, filteredTodos, todoList, todoCount>>

deleteTodo(id) ==
    /\ phase = "ready"
    /\ todos' = RemoveById(todos, id)
    /\ storage' = saveTodos(todos', storage)
    /\ filterOptions' = UniqueDates(todos')
    /\ filterDateSelect' = RestoreSelection(filterDateSelect, filterOptions')
    /\ filteredTodos' = FilterTodos(todos', filterInput, filterDateSelect')
    /\ todoList' = renderTodos(filteredTodos')
    /\ todoCount' = updateTodoCount(Len(filteredTodos'))
    /\ last' = [Cmd("deleteTodo", id, "") EXCEPT !.dropped =
                   filterDateSelect' # filterDateSelect]
    /\ UNCHANGED <<phase, todoInput, todoDate, inputError, dateError,
                   filterInput, clock>>

toggleTodoComplete(id) ==
    /\ phase = "ready"
    /\ IF HasId(todos, id)
       THEN /\ todos' = ToggleById(todos, id)
            /\ storage' = saveTodos(todos', storage)
            /\ filteredTodos' = FilterTodos(todos', filterInput, filterDateSelect)
            /\ todoList' = renderTodos(filteredTodos')
            /\ todoCount' = updateTodoCount(Len(filteredTodos'))
       ELSE UNCHANGED <<todos, storage, filteredTodos, todoList, todoCount>>
    \* history: a second call in a row with the same id keeps the snapshot
    \* taken before the first one
    /\ last' = IF last.cmd = "toggleTodoComplete" /\ last.arg = id /\ last.run = 1
               THEN [last EXCEPT !.run = 2]
               ELSE [cmd |-> "toggleTodoComplete", arg |-> id, dialog |-> "",
                     run |-> 1,
                     before |-> [todos |-> todos, storage |-> storage],
                     seen |-> NoView, dropped |-> FALSE]
    /\ UNCHANGED <<phase, todoInput, todoDate, inputError, dateError, filterInput,
                   filterDateSelect, filterOptions, clock>>

(***************************************************************************)
(* applyFilter, resetFilter, clearAllTodos                                 *)
(***************************************************************************)
\* variant: the view is narrowed from the view before, not from the collection
applyFilterOnView(text, selectedDate) ==
    /\ phase = "ready"
    /\ filterInput' = text
    /\ filterDateSelect' = selectedDate
    /\ filteredTodos' = FilterTodos(filteredTodos, text, selectedDate)
    /\ todoList' = renderTodos(filteredTodos')
    /\ todoCount' = updateTodoCount(Len(filteredTodos'))
    /\ last' = [Cmd("applyFilter", 0, "") EXCEPT !.seen =
                   SeenAfterFilter(text, selectedDate, filteredTodos')]
    /\ UNCHANGED <<phase, storage, todos, todoInput, todoDate, inputError,
                   dateError, filterOptions, clock>>

\* applyFilter as the listener of filterInput ('input') and of
\* filterDateSelect ('change'): the control already holds the new value.
applyFilter(text, selectedDate) ==
    /\ phase = "ready"
    /\ filterInput' = text
    /\ filterDateSelect' = selectedDate
    /\ filteredTodos' = FilterTodos(todos, text, selectedDate)
    /\ todoList' = renderTodos(filteredTodos')
    /\ todoCount' = updateTodoCount(Len(filteredTodos'))
    /\ last' = [Cmd("applyFilter", 0, "") EXCEPT !.seen =
                   SeenAfterFilter(text, selectedDate, filteredTodos')]
    /\ UNCHANGED <<phase, storage, todos, todoInput, todoDate, inputError,
                   dateError, filterOptions, clock>>

FilterInputEvent ==
    \E text \in FilterInputs : text # filterInput /\ applyFilter(text, filterDateSelect)

FilterDateChange ==
    \E d \in Range(filterOptions) \cup {NoDate} :
        d # filterDateSelect /\ applyFilter(filterInput, d)

\* variant: the date select keeps its value
resetFilterKeepsDate ==
    /\ phase = "ready"
    /\ filterInput' = <<>>
    /\ filteredTodos' = todos
    /\ todoList' = renderTodos(filteredTodos')
    /\ todoCount' = updateTodoCount(Len(filteredTodos'))
    /\ last' = Cmd("resetFilter", 0, "")
    /\ UNCHANGED <<phase, storage, todos, todoInput, todoDate, inputError,
                   dateError, filterDateSelect, filterOptions, clock>>

resetFilter ==
    /\ phase = "ready"
    /\ filterInput' = <<>>
    /\ filterDateSelect' = NoDate
    /\ filteredTodos' = todos
    /\ todoList' = renderTodos(filteredTodos')
    /\ todoCount' = updateTodoCount(Len(filteredTodos'))
    /\ last' = [Cmd("resetFilter", 0, "") EXCEPT !.seen =
                   IF last.cmd = "applyFilter" /\ last.seen.stage \in {1, 3}
                   THEN [last.seen EXCEPT !.stage = 2]
                   ELSE NoView]
    /\ UNCHANGED <<phase, storage, todos, todoInput, todoDate, inputError,
                   dateError, filterOptions, clock>>

\* variant: the answer to the confirmation is not looked at
clearAllTodosUnconfirmed(confirmed) ==
    /\ phase = "ready"
    /\ IF Len(todos) = 0
       THEN /\ last' = Cmd("clearAllTodos", 0, "alert")
            /\ UNCHANGED <<storage, todos, filteredTodos, filterOptions,
                           filterDateSelect, todoList, todoCount>>
       ELSE /\ todos' = <<>>
            /\ filteredTodos' = <<>>
            /\ storage' = saveTodos(todos', storage)
            /\ filterOptions' = UniqueDates(todos')
            /\ filterDateSelect' = RestoreSelection(filterDateSelect, filterOptions')
            /\ todoList' = renderTodos(<<>>)
            /\ todoCount' = updateTodoCount(0)
            /\ last' = Cmd("clearAllTodos", 0,
                           IF confirmed THEN "confirm-yes" ELSE "confirm-no")
    /\ UNCHANGED <<phase, todoInput, todoDate, inputError, dateError,
                   filterInput, clock>>

clearAllTodos(confirmed) ==
    /\ phase = "ready"
    /\ IF Len(todos) = 0
       THEN /\ last' = Cmd("clearAllTodos", 0, "alert")
            /\ UNCHANGED <<storage, todos, filteredTodos, filterOptions,
                           filterDateSelect, todoList, todoCount>>
       ELSE IF confirmed
       THEN /\ todos' = <<>>
            /\ filteredTodos' = <<>>
            /\ storage' = saveTodos(todos', storage)
            /\ filterOptions' = UniqueDates(todos')
            /\ filterDateSelect' = RestoreSelection(filterDateSelect, filterOptions')
            /\ todoList' = renderTodos(<<>>)
            /\ todoCount' = updateTodoCount(0)
            /\ last' = [Cmd("clearAllTodos", 0, "confirm-yes") EXCEPT !.dropped =
                           filterDateSelect' # filterDateSelect]
       ELSE /\ last' = Cmd("clearAllTodos", 0, "confirm-no")
            /\ UNCHANGED <<storage, todos, filteredTodos, filterOptions,
                           filterDateSelect, todoList, todoCount>>
    /\ UNCHANGED <<phase, todoInput, todoDate, inputError, dateError,
                   filterInput, clock>>

\* the readings the clock can give next: it never runs backwards
ClockReadings == { n \in {clock, clock + 1} : n <= MaxClock }

\* the ids a row's buttons pass, and one id that no record carries
IdInputs == { todos[i].id : i \in 1 .. Len(todos) } \cup {MissingId}

Next ==
    \/ Reload
    \/ \E inp \in AddInputs, now \in ClockReadings : addTodo(inp[1], inp[2], now)
    \/ \E id \in IdInputs : deleteTodo(id)
    \/ \E id \in IdInputs : toggleTodoComplete(id)
    \/ FilterInputEvent
    \/ FilterDateChange
    \/ resetFilter
    \/ \E confirmed \in BOOLEAN : clearAllTodos(confirmed)

Spec == Init /\ [][Next]_vars

\* The page used with titles of special characters, one record at a time,
\* so that every title of EscapeInputs gets displayed.
NextEscape ==
    \/ Reload
    \/ \E inp \in EscapeInputs, now \in ClockReadings :
           Len(todos) = 0 /\ addTodo(inp[1], inp[2], now)
    \/ \E id \in IdInputs : deleteTodo(id)
    \/ \E id \in IdInputs : toggleTodoComplete(id)
    \/ \E confirmed \in BOOLEAN : clearAllTodos(confirmed)

SpecEscape == Init /\ [][NextEscape]_vars

(***************************************************************************)
(* Vocabulary of the properties                                            *)
(***************************************************************************)
IsBlank(s) == \A i \in 1 .. Len(s) : s[i] = " "

\* t is s without its leading and trailing spaces
IsTrimOf(t, s) ==
    /\ t # <<>>
    /\ t[1] # " "
    /\ t[Len(t)] # " "
    /\ \E i \in 1 .. Len(s) :
          /\ SubSeq(s, i, i + Len(t) - 1) = t
          /\ i + Len(t) - 1 <= Len(s)
          /\ IsBlank(SubSeq(s, 1, i - 1))
          /\ IsBlank(SubSeq(s, i + Len(t), Len(s)))

\* row i of the list shows record i of ts
ShowsAll(list, ts) ==
    /\ list.placeholder = (ts = <<>>)
    /\ Len(list.rows) = Len(ts)
    /\ \A i \in 1 .. Len(ts) :
          /\ list.rows[i].deleteArg = ts[i].id
          /\ list.rows[i].toggleArg = ts[i].id
          /\ list.rows[i].date = formatDate(ts[i].date)
          /\ (list.rows[i].label = "Undo") = ts[i].completed

(***************************************************************************)
(* Properties                                                              *)
(***************************************************************************)
\* C1: after every command the cached filtered view and the displayed list
\* are the filter of the current collection under the current text and date
\* criteria.  Fails: a successful addTodo renders the whole collection and
\* leaves filteredTodos as it was.
C1_ViewIsFilterOfCollection ==
    phase = "ready" =>
        /\ filteredTodos = FilterTodos(todos, filterInput, filterDateSelect)
        /\ todoList = renderTodos(FilterTodos(todos, filterInput, filterDateSelect))

\* C2: no two records of the collection have the same id.  Fails: two
\* addTodo calls that read the same millisecond give the same id.
C2_UniqueIds ==
    \A i, j \in 1 .. Len(todos) : i # j => todos[i].id # todos[j].id

\* C3 as stated: whenever the page is up, the stored item is the
\* serialization of the collection.  Fails on a first run: the collection
\* is empty and nothing has been stored.
C3_StoredIsSerialization ==
    phase = "ready" => storage = JSONstringify(todos)

\* C3 as amended: the stored item is the serialization of the collection,
\* or nothing usable is stored (no item, or the JSON text null) and the
\* collection is still empty because no command has saved yet.
C3_StoredIsSerializationOrFirstRun ==
    phase = "ready" =>
        \/ /\ storage.kind = "array"
           /\ Len(storage.items) = Len(todos)
           /\ \A i \in 1 .. Len(todos) :
                 /\ storage.items[i].id = [type |-> "number", v |-> todos[i].id]
                 /\ storage.items[i].title = [type |-> "string", v |-> todos[i].title]
                 /\ storage.items[i].date = [type |-> "string", v |-> todos[i].date]
                 /\ storage.items[i].completed =
                        [type |-> "literal",
                         v |-> IF todos[i].completed THEN "true" ELSE "false"]
                 /\ storage.items[i].createdAt =
                        [type |-> "string", v |-> todos[i].createdAt]
        \/ /\ storage.kind \in {"absent", "null"}
           /\ todos = <<>>

\* C3 witness: a toggle of an existing record has been stored.
C3_Witness ==
    /\ last.cmd = "toggleTodoComplete"
    /\ Len(todos) = 2
    /\ todos[2].id = last.arg
    /\ todos[2].completed
    /\ storage.kind = "array"
    /\ storage.items[2].completed.v = "true"

\* C4: reloading the page from a running session gives the same collection
\* (ids, titles, dates, completed flags, createdAt, order) and the first
\* render shows all of it.
C4_ReloadRoundTrip ==
    [][(last'.cmd = "load" /\ phase = "ready") =>
          /\ phase' = "ready"
          /\ todos' = todos
          /\ ShowsAll(todoList', todos)]_vars

\* C4 witness: a reload has brought back two records, one of them completed.
C4_Witness ==
    /\ last.cmd = "load"
    /\ phase = "ready"
    /\ Len(todos) = 2
    /\ todos[1].completed
    /\ ~todos[2].completed
    /\ Len(todoList.rows) = 2

\* C5: when the stored item is absent or malformed, startup ends in the
\* steady state with an empty collection.  Fails: text that is not JSON, or
\* JSON that is not iterable, makes the script throw while loading.
C5_LoadNeverFails ==
    storage.kind \in {"absent", "invalid", "null", "object"} =>
        (phase = "ready" /\ todos = <<>>)

\* C6: an addTodo whose title is blank or whose date is empty changes
\* neither the collection, the stored item, the filter criteria nor the
\* two input fields.
C6_RejectedAddChangesNothing ==
    [][last'.cmd = "addTodo" => \A inp \in AddInputs, now \in ClockReadings :
          (addTodo(inp[1], inp[2], now) /\ (IsBlank(inp[1]) \/ inp[2] = NoDate)) =>
              /\ UNCHANGED <<todos, storage, filterInput, filterDateSelect, phase>>
              /\ todoInput' = inp[1]
              /\ todoDate' = inp[2]]_vars

\* C6 witness: an add was rejected while records exist and a filter is set.
C6_Witness ==
    /\ last.cmd = "addTodo"
    /\ inputError = TitleMessage
    /\ IsBlank(todoInput)
    /\ todoInput # <<>>
    /\ Len(todos) > 0
    /\ filterInput # <<>>

\* C7 as stated: after addTodo the title message is shown exactly when the
\* title is blank and the date message exactly when the date is empty.
\* Fails when both are: only the title message is shown.
C7_EveryFailingFieldReported ==
    [][last'.cmd = "addTodo" => \A inp \in AddInputs, now \in ClockReadings :
          addTodo(inp[1], inp[2], now) =>
              /\ (inputError' = TitleMessage) = IsBlank(inp[1])
              /\ (dateError' = DateMessage) = (inp[2] = NoDate)
              /\ inputError' \in {"", TitleMessage}
              /\ dateError' \in {"", DateMessage}]_vars

\* C7 as amended: the title message is shown exactly when the title is
\* blank, and the date message exactly when the title is not blank and the
\* date is empty: only the first failing field is reported.
C7_FirstFailingFieldReported ==
    [][last'.cmd = "addTodo" => \A inp \in AddInputs, now \in ClockReadings :
          addTodo(inp[1], inp[2], now) =>
              /\ (inputError' = TitleMessage) = IsBlank(inp[1])
              /\ (dateError' = DateMessage) = (~IsBlank(inp[1]) /\ inp[2] = NoDate)
              /\ inputError' \in {"", TitleMessage}
              /\ dateError' \in {"", DateMessage}]_vars

\* C7 witness: an add with both fields empty was rejected with the title
\* message alone.
C7_Witness ==
    /\ last.cmd = "addTodo"
    /\ todoInput = <<>>
    /\ todoDate = NoDate
    /\ inputError = TitleMessage
    /\ dateError = ""

\* C8: a successful addTodo appends exactly one record, leaves the earlier
\* records as they were, and the new record has the trimmed title, the
\* given date and completed = FALSE.
C8_AddAppendsOne ==
    [][last'.cmd = "addTodo" => \A inp \in AddInputs, now \in ClockReadings :
          (addTodo(inp[1], inp[2], now) /\ ~IsBlank(inp[1]) /\ inp[2] # NoDate) =>
              /\ Len(todos') = Len(todos) + 1
              /\ SubSeq(todos', 1, Len(todos)) = todos
              /\ IsTrimOf(todos'[Len(todos')].title, inp[1])
              /\ todos'[Len(todos')].date = inp[2]
              /\ todos'[Len(todos')].completed = FALSE]_vars

\* C8 witness: a record whose typed title had spaces around it was added
\* after another record.
C8_Witness ==
    /\ last.cmd = "addTodo"
    /\ inputError = ""
    /\ dateError = ""
    /\ Len(todos) = 2
    /\ todos[1].title = <<"b", "<">>
    /\ todos[2].title = <<"A", "b">>

\* C9: after deleteTodo(id) no record, stored item or row carries id, the
\* records with another id remain unchanged and in order, and an id that
\* no record has leaves the collection unchanged.
C9_DeleteRemovesExactlyId ==
    [][last'.cmd = "deleteTodo" => \A id \in IdInputs :
          deleteTodo(id) =>
              /\ phase' = "ready"
              /\ \A i \in 1 .. Len(todos') : todos'[i].id # id
              /\ storage'.kind = "array"
              /\ \A i \in 1 .. Len(storage'.items) : storage'.items[i].id.v # id
              /\ \A i \in 1 .. Len(todoList'.rows) : todoList'.rows[i].deleteArg # id
              /\ todos' = SelectSeq(todos, LAMBDA t : t.id # id)
              /\ ((\A i \in 1 .. Len(todos) : todos[i].id # id) => todos' = todos)]_vars

\* C9 witness: a record was deleted and another one remains.
C9_Witness ==
    /\ last.cmd = "deleteTodo"
    /\ last.arg # MissingId
    /\ Len(todos) = 1
    /\ todos[1].id # last.arg

\* C10: two toggleTodoComplete(id) calls in a row restore the collection
\* and the stored item; with an id that no record has, one call already
\* leaves both unchanged.
C10_ToggleTwiceRestores ==
    last.cmd = "toggleTodoComplete" =>
        /\ last.run = 2 =>
              (todos = last.before.todos /\ storage = last.before.storage)
        /\ (\A i \in 1 .. Len(last.before.todos) : last.before.todos[i].id # last.arg) =>
              (todos = last.before.todos /\ storage = last.before.storage)

\* C10 witness: an existing record was toggled twice in a row.
C10_Witness ==
    /\ last.cmd = "toggleTodoComplete"
    /\ last.run = 2
    /\ Len(todos) = 2
    /\ todos[2].id = last.arg
    /\ todos[1].id # last.arg

\* s is t with some elements left out
RECURSIVE IsSubSeq(_, _)
IsSubSeq(s, t) ==
    IF s = <<>> THEN TRUE
    ELSE IF t = <<>> THEN FALSE
    ELSE IF Head(s) = Head(t) THEN IsSubSeq(Tail(s), Tail(t))
    ELSE IsSubSeq(s, Tail(t))

\* C11: no command changes the id, title, date or createdAt of a record
\* that stays in the collection; only toggleTodoComplete changes a
\* completed flag, of one record carrying the given id, keeping the length
\* and the order; add only appends, delete and clear-all only remove, and
\* the other commands leave the collection as it is.
C11_OnlyToggleChangesARecord ==
    [][IF last'.cmd = "toggleTodoComplete"
       THEN /\ Len(todos') = Len(todos)
            /\ \A i \in 1 .. Len(todos) :
                  /\ todos'[i].id = todos[i].id
                  /\ todos'[i].title = todos[i].title
                  /\ todos'[i].date = todos[i].date
                  /\ todos'[i].createdAt = todos[i].createdAt
                  /\ todos'[i].completed # todos[i].completed =>
                        todos[i].id = last'.arg
            /\ Cardinality({ i \in 1 .. Len(todos) :
                                todos'[i].completed # todos[i].completed }) <= 1
       ELSE IF last'.cmd = "addTodo"
       THEN todos' = todos \/ (Len(todos') = Len(todos) + 1
                               /\ SubSeq(todos', 1, Len(todos)) = todos)
       ELSE IF last'.cmd \in {"deleteTodo", "clearAllTodos"}
       THEN IsSubSeq(todos', todos)
       ELSE phase = "ready" => todos' = todos]_vars

\* C11 witness: a toggle has flipped the second of two records and left
\* the first one not completed.
C11_Witness ==
    /\ last.cmd = "toggleTodoComplete"
    /\ last.run = 1
    /\ Len(todos) = 2
    /\ todos[2].id = last.arg
    /\ todos[1].id # last.arg
    /\ todos[2].completed
    /\ ~todos[1].completed
    /\ Len(last.before.todos) = 2
    /\ ~last.before.todos[2].completed

\* C12: clearAllTodos on a non-empty collection empties the collection,
\* the filtered view, the list and the stored item exactly when the user
\* confirms and changes none of them when the user declines; on an empty
\* collection it shows the notice, asks nothing and changes nothing.
C12_ClearAllNeedsConfirmation ==
    [][last'.cmd = "clearAllTodos" => \A confirmed \in BOOLEAN :
          clearAllTodos(confirmed) =>
              IF todos = <<>>
              THEN /\ last'.dialog = "alert"
                   /\ UNCHANGED <<todos, storage, filteredTodos, todoList, todoCount>>
              ELSE IF confirmed
              THEN /\ last'.dialog = "confirm-yes"
                   /\ todos' = <<>>
                   /\ filteredTodos' = <<>>
                   /\ todoList'.rows = <<>>
                   /\ todoList'.placeholder
                   /\ storage'.kind = "array"
                   /\ storage'.items = <<>>
              ELSE /\ last'.dialog = "confirm-no"
                   /\ UNCHANGED <<todos, storage, filteredTodos, todoList, todoCount>>]_vars

\* C12 witness: two records were cleared after the user confirmed.
C12_Witness ==
    /\ last.cmd = "clearAllTodos"
    /\ last.dialog = "confirm-yes"
    /\ todos = <<>>
    /\ storage.kind = "array"
    /\ storage.items = <<>>
    /\ todoList.placeholder
    /\ clock = MaxClock

\* a and b are the same character up to the case of a letter
SameLetter(a, b) ==
    \/ a = b
    \/ {a, b} = {"A", "a"}
    \/ {a, b} = {"B", "b"}

\* text occurs in title as a substring, whatever the case of the letters
ContainsIgnoringCase(title, text) ==
    \E i \in 0 .. (Len(title) - Len(text)) :
        \A k \in 1 .. Len(text) : SameLetter(title[i + k], text[k])

\* the records of ts that the criteria let through, in the order of ts
ExpectedView(ts, text, date) ==
    SelectSeq(ts, LAMBDA t : /\ ContainsIgnoringCase(t.title, text)
                             /\ (date = NoDate \/ t.date = date))

\* C13: the filter computation gives exactly the records whose title
\* contains the text criterion whatever the case and whose date is the date
\* criterion (or the criterion is empty), in collection order; with both
\* criteria empty it gives the whole collection; it changes neither the
\* collection nor the stored item.
C13_FilterIsExactSubsequence ==
    [][/\ last'.cmd \in {"applyFilter", "deleteTodo"} =>
             /\ filteredTodos' = ExpectedView(todos', filterInput', filterDateSelect')
             /\ ShowsAll(todoList', filteredTodos')
             /\ (filterInput' = <<>> /\ filterDateSelect' = NoDate) =>
                    filteredTodos' = todos'
       /\ last'.cmd = "applyFilter" => UNCHANGED <<todos, storage>>]_vars

\* C13 witness: the text criterion "A" has let through the record "Ab" and
\* held back the record "b<".
C13_Witness ==
    /\ last.cmd = "applyFilter"
    /\ filterInput = <<"A">>
    /\ filterDateSelect = NoDate
    /\ Len(todos) = 2
    /\ todos[1].title = <<"b", "<">>
    /\ todos[2].title = <<"A", "b">>
    /\ filteredTodos = <<todos[2]>>

\* C14: after resetFilter both criteria are empty, the cached view and the
\* list are the whole collection in insertion order, and the collection and
\* the stored item are as before.
C14_ResetShowsWholeCollection ==
    [][last'.cmd = "resetFilter" =>
          /\ filterInput' = <<>>
          /\ filterDateSelect' = NoDate
          /\ filteredTodos' = todos
          /\ ShowsAll(todoList', todos)
          /\ UNCHANGED <<todos, storage>>]_vars

\* C14 witness: a reset shows two records of different dates.
C14_Witness ==
    /\ last.cmd = "resetFilter"
    /\ Len(todos) = 2
    /\ todos[1].date # todos[2].date
    /\ Len(todoList.rows) = 2
    /\ filteredTodos = todos
    /\ filterInput = <<>>
    /\ filterDateSelect = NoDate

\* C15: when a filtering with criteria (t, d) is followed by resetFilter
\* and then by filter events that put (t, d) in place again, the collection
\* being the same, the cached view and the list are those of the first
\* filtering.
C15_ViewIgnoresFilterHistory ==
    last.seen.stage = 3 =>
        /\ last.cmd = "applyFilter"
        /\ filterInput = last.seen.text
        /\ filterDateSelect = last.seen.date
        /\ filteredTodos = last.seen.view
        /\ ShowsAll(todoList, last.seen.view)

\* C15 witness: the criteria "A" and a date are in place again after a
\* reset, and let one of two records through as before.
C15_Witness ==
    /\ last.seen.stage = 3
    /\ last.seen.text = <<"A">>
    /\ last.seen.date # NoDate
    /\ Len(todos) = 2
    /\ Len(filteredTodos) = 1

\* C16: after every command the options of the date filter are the dates of
\* the records of the collection, each once, in ascending order: a date no
\* record carries any more is not offered, a date a record carries is.
C16_DateOptionsAreTheDatesInUse ==
    phase = "ready" =>
        /\ \A i, j \in 1 .. Len(filterOptions) :
               i < j => DateLess(filterOptions[i], filterOptions[j])
        /\ \A d \in Range(filterOptions) :
               \E i \in 1 .. Len(todos) : todos[i].date = d
        /\ \A i \in 1 .. Len(todos) :
               \E k \in 1 .. Len(filterOptions) : filterOptions[k] = todos[i].date

\* C16 witness: two options are offered in ascending order for two records
\* that were added in descending order of date.
C16_Witness ==
    /\ phase = "ready"
    /\ Len(todos) = 2
    /\ Len(filterOptions) = 2
    /\ DateLess(todos[2].date, todos[1].date)
    /\ filterOptions = <<todos[2].date, todos[1].date>>

\* C17: after every render the count is the number of rows displayed, the
\* word is "item" exactly for one row and "items" otherwise, and the
\* placeholder is displayed exactly when no row is.
C17_CountLabelMatchesRows ==
    phase = "ready" =>
        LET n == Len(todoList.rows) IN
        /\ todoCount[1] = n
        /\ todoCount[2] = "item" <=> n = 1
        /\ todoCount[2] = "items" <=> n # 1
        /\ todoList.placeholder <=> n = 0

\* C17 witness: a filter lets one record of two through, and the label reads
\* "1 item".
C17_Witness ==
    /\ phase = "ready"
    /\ Len(todos) = 2
    /\ Len(todoList.rows) = 1
    /\ todoCount = <<1, "item">>
    /\ ~todoList.placeholder

\* C19: after every command the selected date is empty or the date of a
\* record of the collection; when deleteTodo or clearAllTodos removes the
\* last record of the selected date the selection becomes empty, and the
\* view computed next lets every date through.
C19_SelectedDateIsInUse ==
    [][/\ phase' = "ready" =>
             \/ filterDateSelect' = NoDate
             \/ \E i \in 1 .. Len(todos') : todos'[i].date = filterDateSelect'
       /\ ( /\ last'.cmd \in {"deleteTodo", "clearAllTodos"}
            /\ filterDateSelect # NoDate
            /\ \A i \in 1 .. Len(todos') : todos'[i].date # filterDateSelect )
          => /\ filterDateSelect' = NoDate
             /\ filteredTodos' = ExpectedView(todos', filterInput', NoDate)
             /\ ShowsAll(todoList', filteredTodos')
       /\ ( /\ last'.cmd = "applyFilter"
            /\ filterDateSelect' = NoDate )
          => filteredTodos' = ExpectedView(todos', filterInput', NoDate)
      ]_vars

\* C19 witness: deleting the last record of the selected date emptied the
\* selection, and the record of the other date is displayed.
C19_Witness ==
    /\ last.cmd = "deleteTodo"
    /\ last.dropped
    /\ filterDateSelect = NoDate
    /\ Len(todos) = 1
    /\ Len(todoList.rows) = 1

\* C20: after every command the cached view is a subsequence of the
\* collection, and the rows of the list are the rows of a subsequence of the
\* collection, each with the completed flag its record has now; so the id
\* that a row's buttons pass is the id of a record of the collection.
C20_ViewHoldsOnlyCurrentRecords ==
    phase = "ready" =>
        /\ IsSubSeq(filteredTodos, todos)
        /\ \E S \in SUBSET DOMAIN todos :
               ShowsAll(todoList,
                        FilterSeq(todos, [i \in DOMAIN todos |-> i \in S]))
        /\ \A r \in DOMAIN todoList.rows :
               \E i \in DOMAIN todos :
                   /\ todos[i].id = todoList.rows[r].toggleArg
                   /\ todos[i].id = todoList.rows[r].deleteArg

\* C20 witness: with a filter that lets the second of two records through,
\* that record was toggled and its row shows the new flag.
C20_Witness ==
    /\ last.cmd = "toggleTodoComplete"
    /\ Len(todos) = 2
    /\ Len(filteredTodos) = 1
    /\ filteredTodos[1] = todos[2]
    /\ todos[2].completed
    /\ ~todos[1].completed
    /\ Len(todoList.rows) = 1
    /\ todoList.rows[1].label = "Undo"

\* the five entities, each with the character it stands for
FiveEntities ==
    { <<"&", <<"&", "a", "m", "p", ";">> >>,
      <<"<", <<"&", "l", "t", ";">> >>,
      <<">", <<"&", "g", "t", ";">> >>,
      <<"\"", <<"&", "q", "u", "o", "t", ";">> >>,
      <<"'", <<"&", "#", "0", "3", "9", ";">> >> }

StartsWith(s, p) == Len(p) <= Len(s) /\ SubSeq(s, 1, Len(p)) = p

\* s read from the left, each entity replaced by its character
RECURSIVE DecodeEntities(_)
DecodeEntities(s) ==
    IF s = <<>> THEN <<>>
    ELSE IF \E e \in FiveEntities : StartsWith(s, e[2])
    THEN LET e == CHOOSE e \in FiveEntities : StartsWith(s, e[2])
         IN <<e[1]>> \o DecodeEntities(SubSeq(s, Len(e[2]) + 1, Len(s)))
    ELSE <<Head(s)>> \o DecodeEntities(Tail(s))

\* C18: the title written into a row has none of the characters < > " ',
\* each & in it starts one of the five entities, and decoding the entities
\* gives the title of the record the row stands for.
C18_EscapedTitleIsSafeAndDecodes ==
    phase = "ready" =>
        \A r \in DOMAIN todoList.rows :
            LET written == todoList.rows[r].title IN
            /\ \A k \in DOMAIN written : written[k] \notin {"<", ">", "\"", "'"}
            /\ \A k \in DOMAIN written :
                   written[k] = "&" =>
                       \E e \in FiveEntities :
                           StartsWith(SubSeq(written, k, Len(written)), e[2])
            /\ \E i \in DOMAIN todos :
                   /\ todos[i].id = todoList.rows[r].toggleArg
                   /\ DecodeEntities(written) = todos[i].title

\* C18 witness: the row of a record whose title is an apostrophe and an
\* ampersand is displayed.
C18_Witness ==
    /\ phase = "ready"
    /\ Len(todos) = 1
    /\ todos[1].title = <<"'", "&">>
    /\ Len(todoList.rows) = 1
    /\ todoList.rows[1].title =
           <<"&", "#", "0", "3", "9", ";", "&", "a", "m", "p", ";">>

====
